---- MODULE Spec2Model ----
(***************************************************************************)
(* The flight aggregation-and-caching pipeline of src/main.py:             *)
(* get_flights (the /api/flights handler), its nested fetchSearch and      *)
(* loop coroutines, get_flight_details and validate_iata, run on one       *)
(* asyncio event loop.  A handler runs without interruption between two    *)
(* awaits, so every action below is the code between two suspension        *)
(* points.  The provider (skyscanner) and the callers are the environment: *)
(* their inputs are drawn from small sets.                                 *)
(***************************************************************************)
EXTENDS Integers, Sequences, FiniteSets, TLC

VARIABLES
    cache,  \* httpcache: the stored keys and their serialized payloads
    req     \* one record per get_flights invocation (its locals and position)

vars == <<cache, req>>

(* ------------------------------ constants ------------------------------ *)

MAX_WAIT == 5000
MIN_WAIT == 500
PAGE_SIZE == 5

(* -------------------------------- bounds -------------------------------- *)

\* concurrent get_flights invocations of the pipeline specification
NumRequests == 2
\* distinct detail payloads the provider may return for one itinerary
NumVariants == 2
\* longest itinerary list the provider returns in the single-request specification
MaxItems == 12
\* largest page number a caller passes in the single-request specification
MaxPage == 4

Requests == 1..NumRequests

\* Python's None for an optional value; Some(x) is a present value.
None == <<>>
Some(x) == <<x>>

Min(a, b) == IF a < b THEN a ELSE b
Max(a, b) == IF a > b THEN a ELSE b

(* ------------------------------ airports ------------------------------- *)

\* IATA codes are strings; a string is modelled as the tuple of its letters.
LAX == <<"L", "A", "X">>
JFK == <<"J", "F", "K">>
XXX == <<"X", "X", "X">>
LA == <<"L", "A">>

\* airports.get_by_iata: the directory of known airports.
AirportDirectory == {LAX, JFK}
get_airport_by_iata(code) == IF code \in AirportDirectory THEN Some(code) ELSE None

\* validate_iata raises HTTPException(400) exactly when this is FALSE.
validate_iata(origin, dest) ==
    /\ origin # None /\ dest # None
    /\ ~(Len(origin) # 3 \/ Len(dest) # 3)
    /\ get_airport_by_iata(origin) # None
    /\ get_airport_by_iata(dest) # None

(* -------------------------------- dates -------------------------------- *)

\* Dates are strings compared with Python's str ">": lexicographic on the
\* characters.  A date is modelled as the tuple of its digits.
RECURSIVE StrGT(_, _)
StrGT(a, b) ==
    IF a = <<>> THEN FALSE
    ELSE IF b = <<>> THEN TRUE
    ELSE IF Head(a) # Head(b) THEN Head(a) > Head(b)
    ELSE StrGT(Tail(a), Tail(b))

D01 == <<0, 1>>
D02 == <<0, 2>>

(* -------------------------- provider payloads -------------------------- *)

\* One itinerary of the provider's search payload: its id, whether its legs
\* and stops are present, and the layover hours its legs add up to.
Raw(id, legs_ok, hours) == [id |-> id, legs_ok |-> legs_ok, hours |-> hours]

\* flights.remove_invalid_flights: drops the itineraries that cannot be
\* served, keeping the order of the others.
IsValidFlight(f) == f.legs_ok
remove_invalid_flights(data) == SelectSeq(data, IsValidFlight)

\* flights.calculate_layover_scores: attaches layover_hours to every itinerary.
calculate_layover_scores(data) ==
    [i \in 1..Len(data) |-> [id |-> data[i].id, layover_hours |-> data[i].hours]]

\* A faulty variant: an unstable sort, where an element goes ahead of the
\* elements whose key equals its own.
SortInsert_Unstable(sorted, x) ==
    LET ahead == {i \in 1..Len(sorted) : sorted[i].layover_hours > x.layover_hours}
        k == IF ahead = {} THEN 0 ELSE CHOOSE i \in ahead : \A j \in ahead : j <= i
    IN  SubSeq(sorted, 1, k) \o <<x>> \o SubSeq(sorted, k + 1, Len(sorted))

\* list.sort(key=layover_hours, reverse=True): a stable sort, so an element
\* goes behind every element whose key is greater than or equal to its own.
SortInsert(sorted, x) ==
    LET ahead == {i \in 1..Len(sorted) : sorted[i].layover_hours >= x.layover_hours}
        k == IF ahead = {} THEN 0 ELSE CHOOSE i \in ahead : \A j \in ahead : j <= i
    IN  SubSeq(sorted, 1, k) \o <<x>> \o SubSeq(sorted, k + 1, Len(sorted))

RECURSIVE SortFrom(_, _)
SortFrom(sorted, rest) ==
    IF rest = <<>> THEN sorted
    ELSE SortFrom(SortInsert(sorted, Head(rest)), Tail(rest))

SortByLayoverDesc(data) == SortFrom(<<>>, data)

\* json()/parse_raw of the pydantic models: a serialized payload wraps the
\* value; a payload that is not well-formed does not parse (parse_raw raises).
Json(x) == [wf |-> TRUE, val |-> x]
Parses(s) == s.wf
parse_raw(s) == s.val

\* A faulty variant: the caller's wait_time is forwarded as it is.
ForwardedWaitTime_Unclamped(wait_time) ==
    IF wait_time # None THEN wait_time[1] ELSE MIN_WAIT

\* The waitTime parameter fetchSearch forwards to the provider (lines 262-264).
ForwardedWaitTime(wait_time) ==
    IF wait_time # None THEN Min(wait_time[1], MAX_WAIT) ELSE MIN_WAIT

\* Python's seq[start:end] (0-indexed, negative indices count from the end).
SliceIndex(n, x) == IF x < 0 THEN Max(x + n, 0) ELSE Min(x, n)
PySlice(s, start, end) ==
    SubSeq(s, SliceIndex(Len(s), start) + 1, SliceIndex(Len(s), end))

\* A faulty variant: pages counted from 0.
PageStart_ZeroBased(page) == page * PAGE_SIZE

PageStart(page) == (page - 1) * PAGE_SIZE
PageEnd(page) == PageStart(page) + PAGE_SIZE
\* A faulty variant: the list is not cut, the fan-out runs over every summary.
PageSlice_WholeList(data, page) == data

PageSlice(data, page) == PySlice(data, PageStart(page), PageEnd(page))

(* ------------------------------ cache keys ----------------------------- *)

search_cache_key(p) ==
    [origin |-> p.origin, dest |-> p.dest, date |-> p.date,
     return_date |-> p.return_date]

\* A faulty variant: the detail key tells apart the numbers of adults.
cacheKey_WithAdults(p, id) ==
    [itineraryId |-> id, origin |-> p.origin, dest |-> p.dest, date |-> p.date,
     return_date |-> p.return_date, num_adults |-> p.num_adults]

cacheKey(p, id) ==
    [itineraryId |-> id, origin |-> p.origin, dest |-> p.dest, date |-> p.date,
     return_date |-> p.return_date]

\* httpcache.get / httpcache.set: a durable map from key to payload.
CacheHas(c, k) == k \in DOMAIN c
CacheGet(c, k) == c[k]
CacheSet(c, k, payload) == (k :> payload) @@ c

(* ---------------------------- request state ---------------------------- *)

\* pc: "idle" (not yet called), "awaitSearch" (suspended in fetchSearch on the
\* provider), "awaitGather" (suspended on asyncio.gather), "returned",
\* "raised".  code is the HTTP status of the outcome (0 while running).
\* search is the parsed FlightApiResponse with data already cut to the page;
\* tasks[i] is the position of loop(i): "wait" (suspended on the provider),
\* "hung" (suspended on a provider call that never responds), "done" or
\* "raised"; details is the list the tasks fill; summaries is
\* search.data before it is cut to the page, and provided is the itinerary
\* list of the provider's search answer.  The other fields record what
\* the invocation did and when: searchCalls, detailCalls, cacheGets and
\* cacheSets count its calls, waitTime is the waitTime it sent, prior is the
\* set of invocations that had ended when it was called, and overtook tells
\* whether one of its tasks finished while a task before it was suspended.
IdleRequest ==
    [pc |-> "idle", code |-> 0, params |-> None, summaries |-> <<>>,
     provided |-> None, search |-> None, tasks |-> <<>>, details |-> <<>>,
     result |-> <<>>,
     popularity_arg |-> None, searchCalls |-> 0, detailCalls |-> 0,
     waitTime |-> None, cacheGets |-> 0, cacheSets |-> 0, prior |-> {},
     overtook |-> FALSE]

Raise(q, status_code) == [q EXCEPT !.pc = "raised", !.code = status_code]

\* details_pop = [detail for detail in details if detail is not None]
IsNotNone(d) == d # None
details_pop(details) ==
    LET kept == SelectSeq(details, IsNotNone)
    IN  [i \in 1..Len(kept) |-> kept[i][1]]

\* await asyncio.gather(*coros) and what follows it: the first task that
\* raises makes gather raise at once (the other tasks are not cancelled);
\* when every task is done the handler filters the details, hands them to
\* set_popularity_for_flights and returns them.
AwaitGather(q) ==
    IF \E i \in 1..Len(q.tasks) : q.tasks[i] = "raised" THEN Raise(q, 500)
    ELSE IF \A i \in 1..Len(q.tasks) : q.tasks[i] = "done"
    THEN [q EXCEPT !.pc = "returned", !.code = 200,
                   !.popularity_arg = Some(details_pop(q.details)),
                   !.result = details_pop(q.details)]
    ELSE [q EXCEPT !.pc = "awaitGather"]

\* A faulty variant: loop(i) never finds its entry and always asks the provider.
ProbeTask_NoCache(c, p, id) == "wait"

\* The first step of loop(i), up to its first suspension: the cache probe.
ProbeTask(c, p, id) ==
    LET key == cacheKey(p, id)
    IN  IF CacheHas(c, key)
        THEN IF Parses(CacheGet(c, key)) THEN "done" ELSE "raised"
        ELSE "wait"

ProbeDetail(c, p, id) ==
    LET key == cacheKey(p, id)
    IN  IF CacheHas(c, key) /\ Parses(CacheGet(c, key))
        THEN Some(parse_raw(CacheGet(c, key)))
        ELSE None

\* Lines 303-343: the page slice, and the first step of every loop(i), which
\* the event loop runs back to back once the handler suspends on gather.
FanOut(q, p, found, c) ==
    LET page == PageSlice(found.data, p.page)
        ids == [i \in 1..Len(page) |-> page[i].id]
        started == [q EXCEPT
            !.summaries = found.data,
            !.search = Some([status |-> found.status, data |-> page]),
            !.tasks = [i \in 1..Len(page) |-> ProbeTask(c, p, ids[i])],
            !.details = [i \in 1..Len(page) |-> ProbeDetail(c, p, ids[i])],
            !.cacheGets = @ + Len(page),
            !.detailCalls =
                Cardinality({i \in 1..Len(page) : ProbeTask(c, p, ids[i]) = "wait"})]
    IN  AwaitGather(started)

(* ------------------------------- actions ------------------------------- *)

Init ==
    /\ cache = <<>>
    /\ req = [r \in Requests |-> IdleRequest]

\* A faulty variant: the search cache is looked up before the parameters are validated.
GetFlightsEntry_LateValidation(q, p, c) ==
    LET called == [q EXCEPT !.params = Some(p), !.cacheGets = 1,
                            !.prior = {o \in Requests : req[o].pc \in {"returned", "raised"}}]
        key == search_cache_key(p)
    IN  IF ~validate_iata(p.origin, p.dest) THEN Raise(called, 400)
        ELSE IF StrGT(p.date, p.return_date) THEN Raise(called, 400)
        ELSE IF CacheHas(c, key)
        THEN IF ~Parses(CacheGet(c, key)) THEN Raise(called, 500)
             ELSE FanOut(called, p, parse_raw(CacheGet(c, key)), c)
        ELSE [called EXCEPT !.pc = "awaitSearch", !.searchCalls = 1,
                            !.waitTime = Some(ForwardedWaitTime(p.wait_time))]

\* get_flights from its call to its first suspension (lines 248-251, 287-298).
GetFlightsEntry(q, p, c) ==
    LET called == [q EXCEPT !.params = Some(p),
                            !.prior = {o \in Requests : req[o].pc \in {"returned", "raised"}}]
        key == search_cache_key(p)
    IN  IF ~validate_iata(p.origin, p.dest) THEN Raise(called, 400)
        ELSE IF StrGT(p.date, p.return_date) THEN Raise(called, 400)
        ELSE IF CacheHas(c, key)
        THEN LET looked == [called EXCEPT !.cacheGets = 1]
             IN  IF ~Parses(CacheGet(c, key)) THEN Raise(looked, 500)
                 ELSE FanOut(looked, p, parse_raw(CacheGet(c, key)), c)
        ELSE [called EXCEPT !.pc = "awaitSearch", !.cacheGets = 1,
                            !.searchCalls = 1,
                            !.waitTime = Some(ForwardedWaitTime(p.wait_time))]

\* Invocations are numbered in the order in which they are called.
GetFlights(r, p) ==
    /\ req[r].pc = "idle"
    /\ \A earlier \in 1..(r - 1) : req[earlier].pc # "idle"
    /\ req' = [req EXCEPT ![r] = GetFlightsEntry(req[r], p, cache)]
    /\ UNCHANGED cache

\* What fetchSearch returns for a provider payload with an itinerary list
\* (lines 276-285).
fetchSearch(resp) ==
    Json([status |-> resp.status,
          data |-> SortByLayoverDesc(
                       calculate_layover_scores(remove_invalid_flights(resp.data)))])

\* Whether get_flights stores the search payload (line 300).
StoresSearch(found) == found.status

\* The provider answers the search call: the rest of fetchSearch (lines
\* 272-285) and get_flights up to its next suspension (lines 299-343).
SearchResponse(r, resp) ==
    /\ req[r].pc = "awaitSearch"
    /\ LET q == req[r]
           p == q.params[1]
       IN  IF resp.kind = "raise"
           THEN /\ req' = [req EXCEPT ![r] = Raise(q, 500)]
                /\ UNCHANGED cache
           ELSE IF resp.kind = "null"
           THEN /\ req' = [req EXCEPT ![r] = Raise(q, 404)]
                /\ UNCHANGED cache
           ELSE LET search_data == fetchSearch(resp)
                    found == parse_raw(search_data)
                    stored == StoresSearch(found)
                    c == IF stored
                         THEN CacheSet(cache, search_cache_key(p), search_data)
                         ELSE cache
                    q1 == [q EXCEPT !.provided = Some(resp.data),
                                    !.cacheSets = IF stored THEN @ + 1 ELSE @]
                IN  /\ cache' = c
                    /\ req' = [req EXCEPT ![r] = FanOut(q1, p, found, c)]

\* The FlightDetailResponse the provider returns for an itinerary priced for
\* the given number of adults (get_flight_details, lines 210-229).
DetailPayload(id, num_adults, out) ==
    [id |-> id, adults |-> num_adults, status |-> out.status, v |-> out.v]

\* A faulty variant: loop(i) stores every detail payload.
StoresDetail_Always(res) == TRUE

\* Whether loop(i) stores the detail payload (line 337).
StoresDetail(res) == res.status

\* A faulty variant: the detail goes to the first free slot, in completion order.
StoreDetail_Append(details, i, res) ==
    LET k == CHOOSE j \in 1..Len(details) :
                 details[j] = None /\ \A h \in 1..(j - 1) : details[h] # None
    IN  [details EXCEPT ![k] = Some(res)]

\* A faulty variant: every task sees the last value of the loop variable
\* and writes the last slot.
StoreDetail_LastSlot(details, i, res) == [details EXCEPT ![Len(details)] = Some(res)]

\* details[i] = res (line 340).
StoreDetail(details, i, res) == [details EXCEPT ![i] = Some(res)]

\* The provider answers the detail call of loop(i): the rest of
\* get_flight_details (lines 228-229) and of loop(i) (lines 337-340), then
\* gather's reaction when the handler is still waiting on it.
DetailResponse(r, i, out) ==
    /\ i \in 1..Len(req[r].tasks)
    /\ req[r].tasks[i] = "wait"
    /\ LET q == req[r]
           p == q.params[1]
           id == q.search[1].data[i].id
       IN  IF out.kind = "raise"
           THEN LET q1 == [q EXCEPT !.tasks[i] = "raised"]
                IN  /\ req' = [req EXCEPT ![r] =
                            IF q.pc = "awaitGather" THEN AwaitGather(q1) ELSE q1]
                    /\ UNCHANGED cache
           ELSE LET res == DetailPayload(id, p.num_adults, out)
                    stored == StoresDetail(res)
                    q1 == [q EXCEPT !.tasks[i] = "done",
                                    !.details = StoreDetail(@, i, res),
                                    !.overtook = @ \/ \E j \in 1..(i - 1) : q.tasks[j] = "wait",
                                    !.cacheSets = IF stored THEN @ + 1 ELSE @]
                IN  /\ cache' = IF stored
                                THEN CacheSet(cache, cacheKey(p, id), Json(res))
                                ELSE cache
                    /\ req' = [req EXCEPT ![r] =
                            IF q.pc = "awaitGather" THEN AwaitGather(q1) ELSE q1]

(* ----------------------------- environment ----------------------------- *)

Params(origin, dest, date, return_date, num_adults, wait_time, page) ==
    [origin |-> origin, dest |-> dest, date |-> date, return_date |-> return_date,
     num_adults |-> num_adults, wait_time |-> wait_time, page |-> page]

\* What the callers of the pipeline specification ask for: one route asked
\* with different adults and wait times, and three invalid requests.
PipelineParams ==
    { Params(LAX, JFK, D01, D02, 1, None, 1),
      Params(LAX, JFK, D01, D02, 2, Some(50000), 1),
      Params(XXX, JFK, D01, D02, 1, None, 1),
      Params(LAX, LA, D01, D02, 1, None, 1),
      Params(LAX, JFK, D02, D01, 1, None, 1) }

SearchPayload(kind, status, data) == [kind |-> kind, status |-> status, data |-> data]

\* The provider's answers to a search call in the pipeline specification: the
\* call fails or returns an unparsable body ("raise"), returns a null
\* itinerary list ("null"), or returns a list with a status flag.  In
\* ListMixed itinerary 4 has no stops and the other two come in ascending
\* order of layover hours.
ListMixed == <<Raw(2, TRUE, 3), Raw(4, FALSE, 9), Raw(1, TRUE, 5)>>
ListOne == <<Raw(2, TRUE, 5)>>

PipelineSearchResponses ==
    { SearchPayload("raise", FALSE, <<>>),
      SearchPayload("null", TRUE, <<>>),
      SearchPayload("list", FALSE, ListOne),
      SearchPayload("list", TRUE, ListMixed) }

DetailOutcome(kind, status, v) == [kind |-> kind, status |-> status, v |-> v]

\* A detail call fails or returns an unparsable body ("raise"), or returns a
\* detail with a status flag; v tells apart the payloads (prices, times) the
\* provider returns for one itinerary at different moments.  Itinerary 1
\* varies; itinerary 2 may fail or come back with a false status flag.
DetailOutcomes(id) ==
    IF id = 1 THEN {DetailOutcome("ok", TRUE, v) : v \in 1..NumVariants}
    ELSE IF id = 2
    THEN {DetailOutcome("ok", TRUE, 1), DetailOutcome("ok", FALSE, 1),
          DetailOutcome("raise", FALSE, 1)}
    ELSE {DetailOutcome("ok", TRUE, 1)}

\* The provider answers the detail call of loop(i) of invocation r.
DetailAnswered(r, i) ==
    /\ i <= Len(req[r].tasks)
    /\ \E out \in DetailOutcomes(req[r].search[1].data[i].id) : DetailResponse(r, i, out)

(* ---------------------- the pipeline specification --------------------- *)

\* Concurrent invocations for one route, sharing the cache.
Next ==
    \/ \E r \in Requests, p \in PipelineParams : GetFlights(r, p)
    \/ \E r \in Requests, resp \in PipelineSearchResponses : SearchResponse(r, resp)
    \/ \E r \in Requests, i \in 1..PAGE_SIZE : DetailAnswered(r, i)

Spec == Init /\ [][Next]_vars

(* ------------------- the single-request specification ------------------ *)

\* One invocation, over the callers' whole input range and the provider's
\* longer lists: pages, wait times, airport codes and dates.
Pages == (0 - MaxPage)..MaxPage
WaitTimes == {None, Some(0 - 1), Some(10), Some(MIN_WAIT), Some(MAX_WAIT),
              Some(MAX_WAIT + 1), Some(50000)}

SingleParams ==
    { Params(origin, JFK, date, return_date, 1, wait_time, page) :
        origin \in {LAX, XXX, LA}, date \in {D01, D02}, return_date \in {D01, D02},
        wait_time \in WaitTimes, page \in Pages }
    \cup { Params(LAX, dest, D01, D02, 1, None, 1) : dest \in {XXX, LA} }

\* A list of n itineraries, ids 1..n, some tied on layover hours; ListTwice
\* names itinerary 1 twice.
ListOf(n) == [i \in 1..n |-> Raw(i, TRUE, i % 3)]
ListTwice == <<Raw(1, TRUE, 5), Raw(1, TRUE, 5)>>

SingleSearchResponses ==
    { SearchPayload("list", TRUE, ListOf(n)) : n \in 0..MaxItems }
    \cup { SearchPayload("list", TRUE, ListTwice) }
    \cup PipelineSearchResponses

NextSingle ==
    \/ \E p \in SingleParams : GetFlights(1, p)
    \/ \E resp \in SingleSearchResponses : SearchResponse(1, resp)
    \/ \E i \in 1..PAGE_SIZE : DetailAnswered(1, i)

SpecSingle == Init /\ [][NextSingle]_vars

(* ------------------- the cache-fault specification --------------------- *)

\* The durable store hands back a payload that no longer deserializes (a
\* truncated or stale entry): the CacheError of the error taxonomy.
CorruptEntry(k) ==
    /\ CacheHas(cache, k)
    /\ Parses(CacheGet(cache, k))
    /\ cache' = [cache EXCEPT ![k].wf = FALSE]
    /\ UNCHANGED req

NextCacheFault ==
    \/ Next
    \/ \E k \in DOMAIN cache : CorruptEntry(k)

SpecCacheFault == Init /\ [][NextCacheFault]_vars

(* -------------------- the repeated-request specification --------------- *)

\* Invocation 1, and invocation 2 called after invocation 1 has ended, for
\* the pages of one route over the provider's longer lists.
RepeatParams == { Params(LAX, JFK, D01, D02, 1, None, page) : page \in 1..MaxPage }

RepeatSearchResponses ==
    { SearchPayload("list", TRUE, ListOf(n)) : n \in 0..MaxItems }
    \cup PipelineSearchResponses

NextRepeat ==
    \/ \E p \in RepeatParams : GetFlights(1, p)
    \/ \E p \in RepeatParams :
          req[1].pc \in {"returned", "raised"} /\ GetFlights(2, p)
    \/ \E r \in {1, 2}, resp \in RepeatSearchResponses : SearchResponse(r, resp)
    \/ \E r \in {1, 2}, i \in 1..PAGE_SIZE : DetailAnswered(r, i)

SpecRepeat == Init /\ [][NextRepeat]_vars

(* ---------------------- the hanging-call specification ----------------- *)

\* The provider never responds to the detail call of loop(i): the task stays
\* suspended at line 328, which has no timeout and is never cancelled.
DetailHangs(r, i) ==
    /\ i \in 1..Len(req[r].tasks)
    /\ req[r].tasks[i] = "wait"
    /\ req' = [req EXCEPT ![r].tasks[i] = "hung"]
    /\ UNCHANGED cache

SearchAnswered(r) == \E resp \in RepeatSearchResponses : SearchResponse(r, resp)

\* One invocation whose detail calls are answered or hang.
NextHang ==
    \/ \E p \in RepeatParams : GetFlights(1, p)
    \/ SearchAnswered(1)
    \/ \E i \in 1..PAGE_SIZE : DetailAnswered(1, i)
    \/ \E i \in 1..PAGE_SIZE : DetailHangs(1, i)

\* The provider responds to every call that does not hang, and the event
\* loop resumes the coroutine that awaits the response.
ProviderResponds ==
    /\ WF_vars(SearchAnswered(1))
    /\ \A i \in 1..PAGE_SIZE : WF_vars(DetailAnswered(1, i))

SpecHang == Init /\ [][NextHang]_vars /\ ProviderResponds

(* ------------------------------- helpers ------------------------------- *)

Called(r) == req[r].pc # "idle"
P(r) == req[r].params[1]
Positions(r) == 1..Len(req[r].tasks)
PageIds(r) == [i \in Positions(r) |-> req[r].search[1].data[i].id]

\* The step is r's call / the answer to r's search call / to its i-th detail call.
IsCall(r) == req[r].pc = "idle" /\ req'[r].pc # "idle"
IsSearchAnswer(r) == req[r].pc = "awaitSearch" /\ req'[r].pc # "awaitSearch"
IsDetailAnswer(r, i) ==
    /\ i \in Positions(r) /\ req[r].tasks[i] = "wait" /\ req'[r].tasks[i] # "wait"

(* --------------------------------- C1 ---------------------------------- *)

AllCachedSucceeded == \A k \in DOMAIN cache : parse_raw(cache[k]).status = TRUE

\* An answer that failed (raised, null list, false status flag) leaves the cache as it was.
FailedAnswerNotCached ==
    \A r \in Requests :
        /\ (IsSearchAnswer(r) /\ (req'[r].search = None \/ ~req'[r].search[1].status))
              => cache' = cache
        /\ \A i \in Positions(r) :
              (IsDetailAnswer(r, i)
                 /\ (req'[r].tasks[i] = "raised" \/ ~req'[r].details[i][1].status))
              => cache' = cache

\* A request whose key has no entry calls the provider for it.
MissCallsProvider ==
    \A r \in Requests :
        /\ (IsCall(r) /\ req'[r].code # 400
              /\ ~CacheHas(cache, search_cache_key(req'[r].params[1])))
              => req'[r].pc = "awaitSearch" /\ req'[r].searchCalls = 1
        /\ ((IsCall(r) \/ IsSearchAnswer(r)) /\ req'[r].search # None)
              => \A i \in 1..Len(req'[r].tasks) :
                    ~CacheHas(cache', cacheKey(req'[r].params[1],
                                               req'[r].search[1].data[i].id))
                    => req'[r].tasks[i] = "wait"

\* C1: no caching of failures.  Every cache entry holds a payload whose
\* status flag is true; a search or detail answer that failed creates no
\* entry; and a request whose key has no entry calls the provider for it.
C1_NoCachingOfFailures ==
    []AllCachedSucceeded /\ [][FailedAnswerNotCached /\ MissCallsProvider]_vars

\* An ended invocation got a false status flag for itinerary 2, no entry exists
\* for that DetailKey, and an invocation called afterwards asked the provider again.
C1_Witness ==
    \E r1, r2 \in Requests :
        /\ r1 \in req[r2].prior
        /\ req[r2].params = req[r1].params
        /\ \E i \in Positions(r1) :
              /\ req[r1].tasks[i] = "done" /\ ~req[r1].details[i][1].status
              /\ ~CacheHas(cache, cacheKey(P(r1), PageIds(r1)[i]))
              /\ \E j \in Positions(r2) :
                    /\ PageIds(r2)[j] = PageIds(r1)[i]
                    /\ req[r2].tasks[j] = "wait"
                    /\ req[r2].detailCalls >= 1

(* --------------------------------- C2 ---------------------------------- *)

\* The cache holds what r got: the list its page was cut from, and for every
\* position of its page the detail it returned.
Populated(r) ==
    /\ req[r].pc = "returned"
    /\ CacheHas(cache, search_cache_key(P(r)))
    /\ Parses(CacheGet(cache, search_cache_key(P(r))))
    /\ parse_raw(CacheGet(cache, search_cache_key(P(r)))).data = req[r].summaries
    /\ Len(req[r].result) = Len(req[r].tasks)
    /\ \A i \in Positions(r) :
          /\ CacheHas(cache, cacheKey(P(r), PageIds(r)[i]))
          /\ CacheGet(cache, cacheKey(P(r), PageIds(r)[i])) = Json(req[r].result[i])

\* C2: cache idempotence.  When a first request has returned and the cache
\* holds what it got, a request called with the same parameters makes no
\* provider search call and no provider detail call, and returns the same
\* ordered list of details as the first.
C2_CacheIdempotence ==
    [][\A r1, r2 \in Requests :
          (r1 # r2 /\ Populated(r1) /\ IsCall(r2) /\ req'[r2].params = req[r1].params)
          => /\ req'[r2].searchCalls = 0
             /\ req'[r2].detailCalls = 0
             /\ req'[r2].pc = "returned"
             /\ req'[r2].result = req[r1].result]_vars

\* The first request fetched two details from the provider; the second, called
\* after it ended with the same parameters, returned the same two details
\* without a provider call.
C2_Witness ==
    \E r1, r2 \in Requests :
        /\ r1 \in req[r2].prior
        /\ Populated(r1)
        /\ req[r1].searchCalls = 1 /\ req[r1].detailCalls = 2
        /\ req[r2].params = req[r1].params
        /\ req[r2].pc = "returned"
        /\ req[r2].searchCalls = 0 /\ req[r2].detailCalls = 0
        /\ Len(req[r2].result) = 2
        /\ req[r2].result = req[r1].result

(* --------------------------------- C3 ---------------------------------- *)

FailedPositions(r) ==
    {i \in Positions(r) :
        \/ req[r].tasks[i] = "raised"
        \/ req[r].tasks[i] = "done" /\ ~req[r].details[i][1].status}

SucceededDetails(r) ==
    LET RECURSIVE Collect(_)
        Collect(i) ==
            IF i > Len(req[r].tasks) THEN <<>>
            ELSE IF i \in FailedPositions(r) THEN Collect(i + 1)
            ELSE <<req[r].details[i][1]>> \o Collect(i + 1)
    IN  Collect(1)

\* C3: partial failure.  When every detail task of a page (page >= 1, the
\* pages C5 covers) has finished and some of them failed (the provider call raised, or the detail came back
\* with a false status flag) while others succeeded, get_flights returns
\* exactly the details of the tasks that succeeded, and hands exactly those
\* to set_popularity_for_flights.
C3_PartialFailure ==
    \A r \in Requests :
        (/\ req[r].search # None
         /\ P(r).page >= 1
         /\ \A i \in Positions(r) : req[r].tasks[i] # "wait"
         /\ FailedPositions(r) # {}
         /\ FailedPositions(r) # Positions(r))
        => /\ req[r].pc = "returned"
           /\ req[r].result = SucceededDetails(r)
           /\ req[r].popularity_arg = Some(SucceededDetails(r))

(* --------------------------------- C4 ---------------------------------- *)

\* C4: positional fan-out.  Whatever the order in which the detail tasks
\* finish, the list get_flights returns has, at every position, the detail
\* of the itinerary at that position of the sorted page.
C4_PositionalFanOut ==
    \A r \in Requests :
        req[r].pc = "returned"
        => /\ Len(req[r].result) = Len(req[r].search[1].data)
           /\ \A k \in 1..Len(req[r].result) :
                 req[r].result[k].id = req[r].search[1].data[k].id

\* A page of five distinct itineraries was returned after a task had finished
\* before one at a lower position.
C4_Witness ==
    \E r \in Requests :
        /\ req[r].pc = "returned"
        /\ req[r].overtook
        /\ Len(req[r].result) = PAGE_SIZE
        /\ \A i, j \in Positions(r) : i # j => PageIds(r)[i] # PageIds(r)[j]

(* --------------------------------- C5 ---------------------------------- *)

\* C5: pagination bounds.  For a page number p >= 1 and a sorted list of n
\* summaries, the fan-out runs over exactly the summaries with 0-based index
\* i, (p-1)*PAGE_SIZE <= i < min(p*PAGE_SIZE, n), one task each; a page
\* beyond the last has none, and the request returns the empty list.
C5_PaginationBounds ==
    \A r \in Requests :
        (req[r].search # None /\ P(r).page >= 1)
        => LET n == Len(req[r].summaries)
               lo == (P(r).page - 1) * PAGE_SIZE
               hi == Min(P(r).page * PAGE_SIZE, n)
               count == Max(hi - lo, 0)
           IN  /\ req[r].search[1].data = [k \in 1..count |-> req[r].summaries[lo + k]]
               /\ Len(req[r].tasks) = count
               /\ count = 0 => /\ req[r].pc = "returned" /\ req[r].code = 200
                               /\ req[r].result = <<>> /\ req[r].detailCalls = 0

\* Page 3 of 12 summaries: the partial last page, summaries 10 and 11.
C5_Witness ==
    \E r \in Requests :
        /\ req[r].search # None
        /\ P(r).page = 3
        /\ Len(req[r].summaries) = 12
        /\ req[r].search[1].data = <<req[r].summaries[11], req[r].summaries[12]>>
        /\ req[r].detailCalls = 2

(* --------------------------------- C6 ---------------------------------- *)

NumPages(n) == (n + PAGE_SIZE - 1) \div PAGE_SIZE

\* C6: out-of-range pages are empty.  For every page number outside
\* 1..NumPages(n), zero and negative numbers included, the page slice is
\* empty, no detail call is made and the empty list is returned.
C6_OutOfRangePagesEmpty ==
    \A r \in Requests :
        (/\ req[r].search # None
         /\ (P(r).page < 1 \/ P(r).page > NumPages(Len(req[r].summaries))))
        => /\ req[r].search[1].data = <<>>
           /\ req[r].detailCalls = 0
           /\ req[r].pc = "returned"
           /\ req[r].result = <<>>

(* --------------------------------- C7 ---------------------------------- *)

\* C7: wait-time clamping to the full range.  For every caller-supplied
\* wait_time, the waitTime sent to the provider is
\* max(MIN_WAIT, min(wait_time, MAX_WAIT)).
C7_WaitTimeClampedToRange ==
    \A r \in Requests :
        (req[r].searchCalls = 1 /\ P(r).wait_time # None)
        => req[r].waitTime = Some(Max(MIN_WAIT, Min(P(r).wait_time[1], MAX_WAIT)))

(* --------------------------------- C8 ---------------------------------- *)

\* C8: wait-time ceiling and default.  The waitTime sent to the provider never
\* exceeds MAX_WAIT, is exactly MAX_WAIT for a caller-supplied wait_time above
\* MAX_WAIT, and is MIN_WAIT when the caller supplies none.
C8_WaitTimeCeilingAndDefault ==
    \A r \in Requests :
        req[r].searchCalls = 1
        => /\ req[r].waitTime # None
           /\ req[r].waitTime[1] <= MAX_WAIT
           /\ (P(r).wait_time # None /\ P(r).wait_time[1] > MAX_WAIT)
                 => req[r].waitTime[1] = MAX_WAIT
           /\ P(r).wait_time = None => req[r].waitTime[1] = MIN_WAIT

\* A wait_time of 50000 was sent to the provider as 5000.
C8_Witness ==
    \E r \in Requests :
        /\ req[r].searchCalls = 1
        /\ P(r).wait_time = Some(50000)
        /\ req[r].waitTime = Some(5000)

(* --------------------------------- C9 ---------------------------------- *)

NotAnAirport(code) == Len(code) # 3 \/ code \notin AirportDirectory

InvalidInput(p) ==
    NotAnAirport(p.origin) \/ NotAnAirport(p.dest) \/ StrGT(p.date, p.return_date)

\* C9: validation precedes all I/O.  A request whose origin or dest is not a
\* 3-letter code of the airport directory, or whose date is after its
\* return_date, is rejected with status 400 having made no cache get, no
\* cache set, no provider search call and no provider detail call.
C9_ValidationPrecedesIO ==
    \A r \in Requests :
        (Called(r) /\ InvalidInput(P(r)))
        => /\ req[r].pc = "raised" /\ req[r].code = 400
           /\ req[r].cacheGets = 0 /\ req[r].cacheSets = 0
           /\ req[r].searchCalls = 0 /\ req[r].detailCalls = 0
           /\ req[r].tasks = <<>>

\* A request with reversed dates was rejected while the cache held the entries
\* of an earlier request for the same route.
C9_Witness ==
    \E r \in Requests :
        /\ req[r].pc = "raised" /\ req[r].code = 400
        /\ StrGT(P(r).date, P(r).return_date)
        /\ req[r].prior # {}
        /\ CacheHas(cache, [search_cache_key(P(r)) EXCEPT !.date = D01, !.return_date = D02])

(* --------------------------------- C10 --------------------------------- *)

\* C10: the cache fails open.  A request that reads a payload that does not
\* deserialize, for its SearchKey or for the DetailKey of a page position,
\* treats it as a miss: it calls the provider for that key and does not fail.
C10_CacheFailsOpen ==
    [][\A r \in Requests :
          /\ (/\ IsCall(r) /\ req'[r].code # 400
              /\ CacheHas(cache, search_cache_key(req'[r].params[1]))
              /\ ~Parses(CacheGet(cache, search_cache_key(req'[r].params[1]))))
             => req'[r].pc = "awaitSearch" /\ req'[r].searchCalls = 1
          /\ ((IsCall(r) \/ IsSearchAnswer(r)) /\ req'[r].search # None)
             => \A i \in 1..Len(req'[r].tasks) :
                   LET key == cacheKey(req'[r].params[1], req'[r].search[1].data[i].id)
                   IN  (CacheHas(cache', key) /\ ~Parses(CacheGet(cache', key)))
                       => req'[r].tasks[i] = "wait" /\ req'[r].pc # "raised"]_vars

(* --------------------------------- C11 --------------------------------- *)

\* C11: barrier before proceeding.  While a detail task of the page is still
\* suspended on the provider, get_flights has neither returned nor raised,
\* and set_popularity_for_flights has not been called.
C11_BarrierBeforeProceeding ==
    \A r \in Requests :
        (/\ req[r].search # None
         /\ P(r).page >= 1
         /\ \E i \in Positions(r) : req[r].tasks[i] = "wait")
        => /\ req[r].pc \notin {"returned", "raised"}
           /\ req[r].popularity_arg = None

(* --------------------------------- C12 --------------------------------- *)

\* The provider's answer to r's search call was a failure: the call raised or
\* the itinerary list was null (no search result was kept), or the status
\* flag was false.
SearchFailed(r) ==
    /\ req[r].searchCalls = 1
    /\ req[r].pc # "awaitSearch"
    /\ (req[r].search = None \/ ~req[r].search[1].status)

\* C12: a search-stage provider failure is fatal.  When the search call
\* fails, returns a null itinerary list or returns a false status flag,
\* get_flights aborts with an error, having issued no detail call and written
\* nothing to the cache.
C12_SearchFailureIsFatal ==
    \A r \in Requests :
        (SearchFailed(r) /\ P(r).page >= 1)
        => /\ req[r].pc = "raised"
           /\ req[r].code >= 400
           /\ req[r].detailCalls = 0
           /\ req[r].cacheSets = 0

(* --------------------------------- C13 --------------------------------- *)

\* C13: cache entries are write-once.  Once a cache entry exists for a
\* fingerprint, no step of any request or of any detail task changes it: a
\* fingerprint is set at most once, or a repeated set stores the payload the
\* entry already holds.
C13_CacheWriteOnce ==
    [][\A k \in DOMAIN cache : k \in DOMAIN cache' /\ cache'[k] = cache[k]]_vars

(* --------------------------------- C14 --------------------------------- *)

\* The list is in descending order of layover score.
SortedDescending(list) ==
    \A i, j \in 1..Len(list) : i < j => list[i].layover_hours >= list[j].layover_hours

\* The place of itinerary id in the provider's list.
InputPlace(provided, id) == CHOOSE k \in 1..Len(provided) : provided[k].id = id

\* The list holds the provider's itineraries that have legs and stops, each
\* once, those of equal score in the provider's order.
StableOver(list, provided) ==
    /\ {list[i].id : i \in 1..Len(list)}
          = {provided[k].id : k \in {h \in 1..Len(provided) : provided[h].legs_ok}}
    /\ \A i, j \in 1..Len(list) :
          i < j => /\ list[i].id # list[j].id
                   /\ list[i].layover_hours = list[j].layover_hours
                         => InputPlace(provided, list[i].id)
                               < InputPlace(provided, list[j].id)

\* r found its search in the cache / asked the provider for it.
SearchHit(r) == req[r].search # None /\ req[r].searchCalls = 0
SearchMiss(r) == req[r].search # None /\ req[r].searchCalls = 1

\* C14: sorted, stable page source on both paths.  The list get_flights
\* paginates is in descending order of layover score, with itineraries of
\* equal score in the provider's order, when the search came from the
\* provider and when it came from the cache; a later request that finds the
\* search in the cache paginates the list of the request that fetched it,
\* and the same page number gives it the same itineraries.
C14_SortedStablePageSource ==
    \A r \in Requests :
        req[r].search # None
        => /\ SortedDescending(req[r].summaries)
           /\ SearchMiss(r) => StableOver(req[r].summaries, req[r].provided[1])
           /\ SearchHit(r)
                 => \A r1 \in req[r].prior :
                       (SearchMiss(r1) /\ search_cache_key(P(r1)) = search_cache_key(P(r)))
                       => /\ req[r].summaries = req[r1].summaries
                          /\ P(r).page = P(r1).page => PageIds(r) = PageIds(r1)

\* A request found in the cache a list longer than a page that an earlier
\* request had fetched, and its page, the same as the earlier request's, has
\* two itineraries of equal score.
C14_Witness ==
    \E r1, r2 \in Requests :
        /\ r1 \in req[r2].prior
        /\ SearchMiss(r1) /\ SearchHit(r2)
        /\ P(r2).page = P(r1).page
        /\ Len(req[r2].summaries) > PAGE_SIZE
        /\ PageIds(r2) = PageIds(r1)
        /\ \E i, j \in Positions(r2) :
              /\ i < j
              /\ req[r2].search[1].data[i].layover_hours
                    = req[r2].search[1].data[j].layover_hours

(* --------------------------------- C15 --------------------------------- *)

\* The detail keys that have an entry in the cache.
DetailKeysCached == {k \in DOMAIN cache : "itineraryId" \in DOMAIN k}

\* The page is the run of Len(page) summaries that follows the first offset
\* summaries of the list.
IsRunOf(page, list, offset) ==
    /\ offset + Len(page) <= Len(list)
    /\ \A k \in 1..Len(page) : page[k] = list[offset + k]

\* C15: the fan-out is confined to the page.  A request runs one task per
\* position of its page, the page is a run of at most PAGE_SIZE consecutive
\* summaries of the sorted list (for a page number p >= 1, the run that
\* starts at (p-1)*PAGE_SIZE); it probes the cache once per position, calls
\* the provider at most once per position, and stores details only under
\* the ids of the page.
C15_FanOutConfinedToPage ==
    \A r \in Requests :
        req[r].search # None
        => LET page == req[r].search[1].data
               list == req[r].summaries
           IN  /\ Len(req[r].tasks) = Len(page)
               /\ Len(req[r].details) = Len(page)
               /\ Len(page) <= PAGE_SIZE
               /\ \E offset \in 0..Len(list) : IsRunOf(page, list, offset)
               /\ (P(r).page >= 1 /\ page # <<>>)
                     => IsRunOf(page, list, (P(r).page - 1) * PAGE_SIZE)
               /\ req[r].cacheGets = 1 + Len(page)
               /\ req[r].detailCalls <= Len(page)
               /\ req[r].detailCalls <= PAGE_SIZE
               /\ \A i \in Positions(r) :
                     req[r].tasks[i] = "wait" => req[r].detailCalls >= 1
               /\ (\A o \in Requests : o # r => ~Called(o))
                     => \A k \in DetailKeysCached :
                           \E i \in Positions(r) : k = cacheKey(P(r), page[i].id)

\* Page 2 of 12 summaries was returned: five tasks, five detail calls and
\* five detail entries, for the summaries 6 to 10 of the sorted list.
C15_Witness ==
    \E r \in Requests :
        /\ req[r].pc = "returned"
        /\ P(r).page = 2
        /\ Len(req[r].summaries) = 12
        /\ req[r].detailCalls = PAGE_SIZE
        /\ Cardinality(DetailKeysCached) = PAGE_SIZE
        /\ PageIds(r) = [k \in 1..PAGE_SIZE |-> req[r].summaries[PAGE_SIZE + k].id]

(* --------------------------------- C16 --------------------------------- *)

\* The step leaves every cache entry but that of key as it was.
OnlyEntryWritten(key) ==
    \A k \in (DOMAIN cache) \cup (DOMAIN cache') :
        k # key => k \in DOMAIN cache /\ k \in DOMAIN cache' /\ cache'[k] = cache[k]

\* The step in which the task of position i of r's page finishes its
\* provider call fills slot i, empty until then, and leaves the other slots,
\* the other tasks, the other requests and the entries of other keys alone.
TaskWritesOwnSlot(r, i) ==
    /\ req[r].details[i] = None
    /\ \A j \in Positions(r) \ {i} :
          /\ req'[r].details[j] = req[r].details[j]
          /\ req'[r].tasks[j] = req[r].tasks[j]
    /\ OnlyEntryWritten(cacheKey(P(r), PageIds(r)[i]))
    /\ \A o \in Requests \ {r} : req'[o] = req[o]

\* The step that starts r's tasks fills slot i with nothing but the entry of
\* the DetailKey of position i.
ProbeReadsOwnEntry(r) ==
    (req[r].search = None /\ req'[r].search # None)
    => \A i \in 1..Len(req'[r].tasks) :
          LET key == cacheKey(req'[r].params[1], req'[r].search[1].data[i].id)
          IN  /\ req'[r].details[i] # None
                    => /\ CacheHas(cache', key)
                       /\ req'[r].details[i] = Some(parse_raw(CacheGet(cache', key)))
              /\ req'[r].tasks[i] = "wait" <=> ~CacheHas(cache', key)

\* C16: fan-out tasks are independent.  The task of page position i writes
\* result slot i, once, and the cache entry of its own DetailKey; it changes
\* no other slot, no other task and no other entry, and what it puts in its
\* slot comes from its own cache entry or its own provider call.
C16_FanOutTasksIndependent ==
    [][\A r \in Requests :
          /\ \A i \in Positions(r) : IsDetailAnswer(r, i) => TaskWritesOwnSlot(r, i)
          /\ \A i \in Positions(r) :
                req[r].details[i] # None => req'[r].details[i] = req[r].details[i]
          /\ ProbeReadsOwnEntry(r)]_vars

\* A request whose page has a slot filled from the cache holds the detail of
\* a task that finished its provider call at a later position while the
\* task of an earlier position is still suspended, its slot empty.
C16_Witness ==
    \E r \in Requests :
        /\ req[r].pc = "awaitGather"
        /\ req[r].cacheSets >= 1
        /\ \E h, i, j \in Positions(r) :
              /\ i < j /\ h # i /\ h # j
              /\ req[r].tasks[i] = "wait" /\ req[r].details[i] = None
              /\ req[r].tasks[j] = "done" /\ req[r].details[j] # None
              /\ CacheHas(cache, cacheKey(P(r), PageIds(r)[j]))
              /\ ~CacheHas(cache, cacheKey(P(r), PageIds(r)[i]))
              /\ req[r].tasks[h] = "done"
              /\ req[r].detailCalls < Len(req[r].tasks)

(* --------------------------------- C17 --------------------------------- *)

Ended(r) == req[r].pc \in {"returned", "raised"}
HasHungCall(r) == \E i \in Positions(r) : req[r].tasks[i] = "hung"

\* A request none of whose provider calls hangs ends, with a result or an error.
AnsweredCallsComplete == \A r \in Requests : Called(r) ~> (Ended(r) \/ HasHungCall(r))

\* A request one of whose detail calls never responds has not ended.
HungCallStallsRequest == \A r \in Requests : HasHungCall(r) => ~Ended(r)

\* C17: request completion depends on every detail call.  When the provider
\* responds to every call of a request, the request ends, with a result or
\* an error; when one detail call of the page never responds, the request
\* never ends.
C17_CompletionDependsOnEveryDetailCall ==
    AnsweredCallsComplete /\ []HungCallStallsRequest

(* --------------------------------- C18 --------------------------------- *)

\* The two parameter sets ask for the same page of the same search and
\* differ in the number of adults or in the wait time.
SameSearchOtherParty(p1, p2) ==
    /\ search_cache_key(p1) = search_cache_key(p2)
    /\ p1.page = p2.page
    /\ (p1.num_adults # p2.num_adults \/ p1.wait_time # p2.wait_time)

\* r made a provider detail call for every position of its page.
FetchedWholePage(r) == req[r].detailCalls = Len(req[r].tasks)

\* C18: cache keys ignore num_adults and wait_time.  When a first request
\* has returned and the cache holds its search and its page's details, a
\* request called for the same origin, dest, date, return_date and page with
\* another num_adults or wait_time makes no provider call and returns the
\* first request's details: those fetched for the first request's
\* num_adults when the first request fetched them itself.
C18_CacheKeysIgnoreAdultsAndWait ==
    [][\A r1, r2 \in Requests :
          (/\ r1 # r2 /\ Populated(r1) /\ IsCall(r2)
           /\ SameSearchOtherParty(P(r1), req'[r2].params[1]))
          => /\ req'[r2].searchCalls = 0
             /\ req'[r2].detailCalls = 0
             /\ req'[r2].pc = "returned"
             /\ req'[r2].result = req[r1].result
             /\ FetchedWholePage(r1)
                   => \A k \in 1..Len(req'[r2].result) :
                         req'[r2].result[k].adults = P(r1).num_adults]_vars

\* A request for two adults with a wait time, called after a request for
\* one adult without one had fetched and returned two details, returned
\* those two details, priced for one adult, without a provider call.
C18_Witness ==
    \E r1, r2 \in Requests :
        /\ r1 \in req[r2].prior
        /\ req[r1].pc = "returned" /\ req[r2].pc = "returned"
        /\ SameSearchOtherParty(P(r1), P(r2))
        /\ P(r1).num_adults = 1 /\ P(r2).num_adults = 2
        /\ P(r1).wait_time = None /\ P(r2).wait_time # None
        /\ req[r1].detailCalls = 2
        /\ req[r2].searchCalls = 0 /\ req[r2].detailCalls = 0
        /\ Len(req[r2].result) = 2
        /\ req[r2].result = req[r1].result
        /\ \A k \in 1..2 : req[r2].result[k].adults = 1

====
